---- MODULE Spec2Model ----
(***************************************************************************)
(* Model of relay-metrics/src/meta/protocol.rs: the metric-metadata wire   *)
(* contract (MetricMeta, Item, Location) and the day-truncated timestamp   *)
(* StartOfDayUnixTimestamp.                                                *)
(*                                                                         *)
(* All operations of the file are pure functions, so each specification    *)
(* draws its inputs in Init and its actions apply the functions:           *)
(*   SpecTime  StartOfDayUnixTimestamp::new / as_timestamp / Deserialize   *)
(*   SpecItem  Item and Location, Deserialize and Serialize                *)
(*   SpecDoc   MetricMeta, Deserialize and Serialize                       *)
(*                                                                         *)
(* Integers: TLC evaluates integers of 32 bits only, so the 64-bit         *)
(* seconds of UnixTimestamp are modelled with SecsBits bits (u64 is        *)
(* 0..2^SecsBits-1, i64 tops at 2^(SecsBits-1)-1) and chrono's last        *)
(* representable date is day MaxDate after the epoch.  The order of the    *)
(* three limits is the real one: last calendar second < i64::MAX <         *)
(* u64::MAX.  Seconds per day is the real 86400.                           *)
(***************************************************************************)
EXTENDS Integers, Sequences, FiniteSets, TLC

\* ---------------------------------------------------------------- bounds
SecsBits == 20
MaxDate == 4
MaxCtx == 2
MaxFields == 2
MaxItems == 2

\* ------------------------------------------------------------- constants
SecsPerDay == 86400

U64Max == 2 ^ SecsBits - 1
I64Max == 2 ^ (SecsBits - 1) - 1
MinDate == 0 - MaxDate - 1

\* Option<T>: None is the empty sequence, Some(x) the one-element sequence.
None == << >>
Some(x) == << x >>
IsSome(o) == Len(o) = 1
Unwrap(o) == o[1]

\* Result<T, E>
Ok(v) == << "ok", v >>
Err(e) == << "err", e >>
IsOk(r) == r[1] = "ok"
IsErr(r) == r[1] = "err"
Value(r) == r[2]

\* ------------------------------------------------------------ timestamps

\* u64 -> i64, `ts.as_secs().try_into().ok()`
TryIntoI64(n) == IF n <= I64Max THEN Some(n) ELSE None

\* chrono DateTime::from_timestamp(secs, 0): days and second of day by
\* Euclidean division, None when the date is outside the calendar.
DateTime_from_timestamp(secs) ==
    LET days == secs \div SecsPerDay
        sod  == secs % SecsPerDay
    IN  IF days >= MinDate /\ days <= MaxDate
        THEN Some([date |-> days, secs |-> sod])
        ELSE None

date_naive(dt) == dt.date

\* NaiveDate::and_hms_opt(h, m, s) followed by and_utc()
and_hms_opt(date, h, m, s) ==
    IF h < 24 /\ m < 60 /\ s < 60
    THEN Some([date |-> date, secs |-> h * 3600 + m * 60 + s])
    ELSE None

\* DateTime::timestamp()
timestamp(dt) == dt.date * SecsPerDay + dt.secs

\* UnixTimestamp::from_datetime: None for an instant before the epoch.
UnixTimestamp_from_datetime(dt) ==
    IF timestamp(dt) >= 0 THEN Some(timestamp(dt)) ELSE None

\* Mutant: the input's seconds are wrapped without truncation.
StartOfDay_new_untruncated(ts) ==
    LET secs == TryIntoI64(ts) IN
    IF ~IsSome(secs) THEN None ELSE
    LET dt == DateTime_from_timestamp(Unwrap(secs)) IN
    IF ~IsSome(dt) THEN None ELSE
    UnixTimestamp_from_datetime(Unwrap(dt))

\* Mutant: truncation to the start of the hour instead of the day.
StartOfDay_new_hour(ts) ==
    LET secs == TryIntoI64(ts) IN
    IF ~IsSome(secs) THEN None ELSE
    LET dt == DateTime_from_timestamp(Unwrap(secs)) IN
    IF ~IsSome(dt) THEN None ELSE
    LET beginning_of_hour == and_hms_opt(date_naive(Unwrap(dt)),
                                         Unwrap(dt).secs \div 3600, 0, 0) IN
    IF ~IsSome(beginning_of_hour) THEN None ELSE
    UnixTimestamp_from_datetime(Unwrap(beginning_of_hour))

\* Mutant: the start of the day after the input's day (an off-by-one date).
StartOfDay_new_next_day(ts) ==
    LET secs == TryIntoI64(ts) IN
    IF ~IsSome(secs) THEN None ELSE
    LET dt == DateTime_from_timestamp(Unwrap(secs)) IN
    IF ~IsSome(dt) THEN None ELSE
    LET beginning_of_day == and_hms_opt(date_naive(Unwrap(dt)) + 1, 0, 0, 0) IN
    IF ~IsSome(beginning_of_day) THEN None ELSE
    UnixTimestamp_from_datetime(Unwrap(beginning_of_day))

\* Mutant: an out-of-range input is clamped to the epoch instead of
\* being refused.
StartOfDay_new_clamped(ts) ==
    LET secs == TryIntoI64(ts) IN
    IF ~IsSome(secs) THEN Some(0) ELSE
    LET dt == DateTime_from_timestamp(Unwrap(secs)) IN
    IF ~IsSome(dt) THEN Some(0) ELSE
    LET beginning_of_day == and_hms_opt(date_naive(Unwrap(dt)), 0, 0, 0) IN
    IF ~IsSome(beginning_of_day) THEN None ELSE
    UnixTimestamp_from_datetime(Unwrap(beginning_of_day))

\* StartOfDayUnixTimestamp::new.  A StartOfDayUnixTimestamp is modelled by
\* the seconds of the UnixTimestamp it wraps.
StartOfDay_new(ts) ==
    LET secs == TryIntoI64(ts) IN
    IF ~IsSome(secs) THEN None ELSE
    LET dt == DateTime_from_timestamp(Unwrap(secs)) IN
    IF ~IsSome(dt) THEN None ELSE
    LET beginning_of_day == and_hms_opt(date_naive(Unwrap(dt)), 0, 0, 0) IN
    IF ~IsSome(beginning_of_day) THEN None ELSE
    UnixTimestamp_from_datetime(Unwrap(beginning_of_day))

\* StartOfDayUnixTimestamp::as_timestamp
as_timestamp(d) == d

\* Derived PartialEq / Ord of the newtype: those of the wrapped value.
StartOfDay_eq(a, b) == a = b
StartOfDay_lt(a, b) == a < b

\* ------------------------------------------------------------------ JSON
\* A JSON value is a tuple whose first element names its kind.  An object
\* is a function from its keys to their values; the `mapping` object of a
\* document, whose entries serde visits in document order, is the sequence
\* of its << key, value >> entries.
JNull == << "null" >>
JStr(s) == << "str", s >>
JUint(n) == << "uint", n >>
JInt(n) == << "int", n >>
JArr(a) == << "arr", a >>
JObj(f) == << "obj", f >>
JEntries(es) == << "entries", es >>
Kind(j) == j[1]
Payload(j) == j[2]
EmptyObj == [k \in {} |-> JNull]

\* UnixTimestamp's Deserialize on a JSON unsigned integer: that many
\* seconds.  null, arrays and objects are not timestamps.
UnixTimestamp_deserialize(j) ==
    IF Kind(j) = "uint" THEN Ok(Payload(j)) ELSE Err("invalid type")

\* impl Deserialize for StartOfDayUnixTimestamp
StartOfDay_deserialize(j) ==
    LET ts == UnixTimestamp_deserialize(j) IN
    IF IsErr(ts) THEN ts ELSE
    LET d == StartOfDay_new(Value(ts)) IN
    IF IsSome(d) THEN Ok(Unwrap(d)) ELSE Err("invalid timestamp")

\* impl Serialize for StartOfDayUnixTimestamp: the wrapped seconds.
StartOfDay_serialize(d) == JUint(as_timestamp(d))

\* -------------------------------------------------------------- Location
OptStringFields == { "filename", "abs_path", "module", "function",
                     "context_line" }
OptU64Fields == { "lineno" }
ContextFields == { "pre_context", "post_context" }
LocationFields == OptStringFields \cup OptU64Fields \cup ContextFields

\* serde's Option<String>: null is None, a string is Some, the rest fails.
OptString_deserialize(j) ==
    CASE Kind(j) = "null" -> Ok(None)
      [] Kind(j) = "str"  -> Ok(Some(Payload(j)))
      [] OTHER            -> Err("invalid type")

\* serde's Option<u64>
OptU64_deserialize(j) ==
    CASE Kind(j) = "null" -> Ok(None)
      [] Kind(j) = "uint" -> Ok(Some(Payload(j)))
      [] OTHER            -> Err("invalid type")

\* Mutant: null elements are dropped, the rest compacted.
RECURSIVE Compact(_)
Compact(a) ==
    IF a = << >> THEN << >>
    ELSE IF Kind(Head(a)) = "null" THEN Compact(Tail(a))
    ELSE << Head(a) >> \o Compact(Tail(a))

VecOptString_deserialize_compacting(j) ==
    IF Kind(j) # "arr" THEN Err("invalid type")
    ELSE IF \E i \in 1..Len(Payload(j)) :
                 IsErr(OptString_deserialize(Payload(j)[i]))
    THEN Err("invalid type")
    ELSE Ok([i \in 1..Len(Compact(Payload(j))) |->
                Value(OptString_deserialize(Compact(Payload(j))[i]))])

\* serde's Vec<Option<String>>: an array, element by element, in order.
VecOptString_deserialize(j) ==
    IF Kind(j) # "arr" THEN Err("invalid type")
    ELSE IF \E i \in 1..Len(Payload(j)) :
                 IsErr(OptString_deserialize(Payload(j)[i]))
    THEN Err("invalid type")
    ELSE Ok([i \in 1..Len(Payload(j)) |->
                Value(OptString_deserialize(Payload(j)[i]))])

\* One field of the derived Deserialize of Location, from the object's
\* entries: a missing Option field is None, a missing context field takes
\* its #[serde(default)], the empty Vec.
Field_deserialize(obj, k) ==
    IF k \notin DOMAIN obj
    THEN Ok(IF k \in ContextFields THEN << >> ELSE None)
    ELSE CASE k \in OptStringFields -> OptString_deserialize(obj[k])
           [] k \in OptU64Fields    -> OptU64_deserialize(obj[k])
           [] OTHER                 -> VecOptString_deserialize(obj[k])

\* Mutant: a field of the wrong type is read as absent.
Location_deserialize_lenient(obj) ==
    Ok([k \in LocationFields |->
          IF IsOk(Field_deserialize(obj, k))
          THEN Value(Field_deserialize(obj, k))
          ELSE IF k \in ContextFields THEN << >> ELSE None])

\* #[derive(Deserialize)] for Location: every field must decode; keys that
\* are no field of Location are ignored.
Location_deserialize(obj) ==
    IF \E k \in LocationFields : IsErr(Field_deserialize(obj, k))
    THEN Err("invalid type")
    ELSE Ok([k \in LocationFields |-> Value(Field_deserialize(obj, k))])

OptString_serialize(o) == IF IsSome(o) THEN JStr(Unwrap(o)) ELSE JNull

\* skip_serializing_if: Option::is_none for the Option fields,
\* Vec::is_empty for the context fields.
SkipField(loc, k) ==
    IF k \in ContextFields THEN loc[k] = << >> ELSE ~IsSome(loc[k])

Field_serialize(loc, k) ==
    CASE k \in OptStringFields -> JStr(Unwrap(loc[k]))
      [] k \in OptU64Fields    -> JUint(Unwrap(loc[k]))
      [] OTHER -> JArr([i \in 1..Len(loc[k]) |-> OptString_serialize(loc[k][i])])

\* Mutant: skip_serializing_if is missing, every field is written.
Location_serialize_noskip(loc) ==
    [k \in LocationFields |->
        IF k \in ContextFields
        THEN JArr([i \in 1..Len(loc[k]) |-> OptString_serialize(loc[k][i])])
        ELSE IF ~IsSome(loc[k]) THEN JNull ELSE Field_serialize(loc, k)]

\* #[derive(Serialize)] for Location: the entries of the struct's object.
Location_serialize(loc) ==
    [k \in { f \in LocationFields : ~SkipField(loc, f) } |->
        Field_serialize(loc, k)]

\* ------------------------------------------------------------------ Item
Unknown == [variant |-> "Unknown"]
Location(loc) == [variant |-> "Location", loc |-> loc]

\* The derived variant identifier with rename_all = "lowercase" and
\* #[serde(other)] on Unknown.
Variant_of_tag(tag) == IF tag = "location" THEN "Location" ELSE "Unknown"

\* The object's entries without the tag.
Content(obj) == [k \in DOMAIN obj \ { "type" } |-> obj[k]]

\* Mutant: an unrecognized tag is an error (no #[serde(other)]).
Item_deserialize_strict(j) ==
    IF Kind(j) # "obj" THEN Err("invalid type")
    ELSE IF "type" \notin DOMAIN Payload(j) THEN Err("missing field type")
    ELSE IF Kind(Payload(j)["type"]) # "str" THEN Err("invalid type")
    ELSE IF Payload(j)["type"][2] = "location"
    THEN LET loc == Location_deserialize(Content(Payload(j))) IN
         IF IsErr(loc) THEN loc ELSE Ok(Location(Value(loc)))
    ELSE Err("unknown variant")

\* Mutant: a missing tag is read as the catch-all variant.
Item_deserialize_tagless(j) ==
    IF Kind(j) # "obj" THEN Err("invalid type")
    ELSE IF "type" \notin DOMAIN Payload(j) THEN Ok(Unknown)
    ELSE IF Kind(Payload(j)["type"]) # "str" THEN Err("invalid type")
    ELSE IF Variant_of_tag(Payload(j)["type"][2]) = "Location"
    THEN LET loc == Location_deserialize(Content(Payload(j))) IN
         IF IsErr(loc) THEN loc ELSE Ok(Location(Value(loc)))
    ELSE Ok(Unknown)

\* #[derive(Deserialize)] #[serde(tag = "type")] for Item: the tag is
\* looked up first, is required and is read as an identifier, that is a
\* string; Location decodes the other entries, the unit variant Unknown
\* ignores them.
Item_deserialize(j) ==
    IF Kind(j) # "obj" THEN Err("invalid type")
    ELSE IF "type" \notin DOMAIN Payload(j) THEN Err("missing field type")
    ELSE IF Kind(Payload(j)["type"]) # "str" THEN Err("invalid type")
    ELSE IF Variant_of_tag(Payload(j)["type"][2]) = "Location"
    THEN LET loc == Location_deserialize(Content(Payload(j))) IN
         IF IsErr(loc) THEN loc ELSE Ok(Location(Value(loc)))
    ELSE Ok(Unknown)

\* #[derive(Serialize)] for Item: the tag, then the variant's entries.
Item_serialize(item) ==
    IF item.variant = "Location"
    THEN JObj(("type" :> JStr("location")) @@ Location_serialize(item.loc))
    ELSE JObj("type" :> JStr("unknown"))

\* ------------------------------------------------------------ MetricMeta
\* MetricResourceIdentifier, by its canonical string.  Parsing fills in the
\* default namespace ("d:a@u" names the metric "d:custom/a@u"), as the
\* file's test shows for "d:memory.allocations@allocations"; Display
\* writes the canonical string, which parses to itself.
MetricKeys == { "d:a@u", "d:custom/a@u", "c:custom/b@u" }
Mri_parse(key) ==
    CASE key = "d:a@u"      -> Ok("d:custom/a@u")
      [] key \in MetricKeys -> Ok(key)
      [] OTHER              -> Err("invalid MRI")
Mri_canonical(key) == Value(Mri_parse(key))

\* serde's Vec<Item>
VecItem_deserialize(j) ==
    IF Kind(j) # "arr" THEN Err("invalid type")
    ELSE IF \E i \in 1..Len(Payload(j)) : IsErr(Item_deserialize(Payload(j)[i]))
    THEN Err("invalid item")
    ELSE Ok([i \in 1..Len(Payload(j)) |-> Value(Item_deserialize(Payload(j)[i]))])

\* HashMap::insert: a later entry with an equal key replaces the earlier.
HashMap_insert(m, k, v) == [x \in DOMAIN m \cup { k } |-> IF x = k THEN v ELSE m[x]]

\* serde's HashMap<MetricResourceIdentifier, Vec<Item>>: the entries in
\* document order, each key parsed, each value decoded, then inserted.
RECURSIVE HashMap_collect(_, _)
HashMap_collect(es, acc) ==
    IF es = << >> THEN Ok(acc) ELSE
    LET k == Mri_parse(Head(es)[1])
        v == VecItem_deserialize(Head(es)[2])
    IN  IF IsErr(k) THEN k
        ELSE IF IsErr(v) THEN v
        ELSE HashMap_collect(Tail(es), HashMap_insert(acc, Value(k), Value(v)))

Mapping_deserialize(j) ==
    IF Kind(j) # "entries" THEN Err("invalid type")
    ELSE HashMap_collect(Payload(j), EmptyObj)

\* #[derive(Deserialize)] for MetricMeta: both fields are required and
\* either field's error is the document's.
MetricMeta_deserialize(j) ==
    IF Kind(j) # "obj" THEN Err("invalid type")
    ELSE IF "timestamp" \notin DOMAIN Payload(j) THEN Err("missing field timestamp")
    ELSE IF "mapping" \notin DOMAIN Payload(j) THEN Err("missing field mapping")
    ELSE LET ts == StartOfDay_deserialize(Payload(j)["timestamp"])
             mp == Mapping_deserialize(Payload(j)["mapping"])
         IN  IF IsErr(ts) THEN ts
             ELSE IF IsErr(mp) THEN mp
             ELSE Ok([timestamp |-> Value(ts), mapping |-> Value(mp)])

\* Mutant: the items are written without their tag.
MetricMeta_serialize_untagged(m) ==
    JObj([timestamp |-> StartOfDay_serialize(m.timestamp),
          mapping |-> JObj([k \in DOMAIN m.mapping |->
              JArr([i \in 1..Len(m.mapping[k]) |->
                  JObj(Content(Payload(Item_serialize(m.mapping[k][i]))))])])])

\* #[derive(Serialize)] for MetricMeta.  The HashMap is written in its own
\* iteration order, so the written mapping is an object without an order.
MetricMeta_serialize(m) ==
    JObj([timestamp |-> StartOfDay_serialize(m.timestamp),
          mapping |-> JObj([k \in DOMAIN m.mapping |->
              JArr([i \in 1..Len(m.mapping[k]) |->
                  Item_serialize(m.mapping[k][i])])])])

\* ---------------------------------------------------------------- inputs
\* Seconds within a day, and timestamps: every sampled second of every day
\* up to one day past the calendar, and the values around i64::MAX and
\* u64::MAX.
SecondSamples == { 0, 1, 3599, 43200, SecsPerDay - 1 }
Timestamps ==
    { d * SecsPerDay + s : d \in 0..(MaxDate + 1), s \in SecondSamples }
    \cup { I64Max - 1, I64Max, I64Max + 1, U64Max - 1, U64Max }

\* JSON arrays of strings and nulls, up to n elements.
ContextArrays(n) ==
    UNION { { JArr(a) : a \in [1..m -> { JNull, JStr("x") }] } : m \in 0..n }

\* The values tried for each key of an item object: the right type, null
\* and wrong types.
WireValues(k) ==
    CASE k = "type" -> { JStr("location"), JStr("unknown_future_kind"), JUint(5) }
      [] k \in OptStringFields -> { JStr("a"), JNull, JUint(5) }
      [] k \in OptU64Fields -> { JUint(5), JNull, JStr("a"), JInt(0 - 1) }
      [] k \in ContextFields ->
            ContextArrays(MaxCtx) \cup { JArr(<< JStr("x"), JUint(5) >>), JNull, JStr("a") }
      [] OTHER -> { JUint(7) }

ItemKeys == LocationFields \cup { "type", "colno" }

RECURSIVE ObjectsOver(_)
ObjectsOver(D) ==
    IF D = {} THEN { EmptyObj }
    ELSE LET k == CHOOSE x \in D : TRUE
             values == WireValues(k)
             rest == ObjectsOver(D \ { k })
         IN  { (k :> v) @@ f : f \in rest, v \in values }

\* The key sets of the item objects tried: with or without the tag, and at
\* most n other keys.
ItemDomains(n) == { S \in SUBSET ItemKeys : Cardinality(S \ { "type" }) <= n }

LocMin == JObj("type" :> JStr("location"))
\* The item of the file's test document, its strings shortened.
LocRich == JObj([type |-> JStr("location"), abs_path |-> JStr("/a"),
                 function |-> JStr("f"), lineno |-> JUint(5),
                 filename |-> JStr("a"),
                 pre_context |-> JArr(<< JNull, JStr("x"), JStr("y") >>),
                 context_line |-> JStr("c"),
                 post_context |-> JArr(<< JStr("end"), JNull, JNull >>)])
UnknownItem == JObj([type |-> JStr("unknown_future_kind"), lineno |-> JStr("a")])
BadLocation == JObj([type |-> JStr("location"), lineno |-> JStr("a")])
TaglessItem == JObj([filename |-> JStr("a")])
DocItems == { LocMin, LocRich, UnknownItem, BadLocation, TaglessItem }

Day1 == JUint(SecsPerDay)
Envelope(ts, items) ==
    JObj([timestamp |-> ts,
          mapping |-> JEntries(<< << "d:custom/a@u", JArr(items) >> >>)])

\* Mappings of at most two entries and n items, the entries in document
\* order.
ItemLists(n) == UNION { [1..m -> DocItems] : m \in 0..n }
DocMappings(n) ==
    { << >> }
    \cup { << << k, JArr(l) >> >> : k \in MetricKeys, l \in ItemLists(n) }
    \cup { << << ks[1], JArr(ls[1]) >>, << ks[2], JArr(ls[2]) >> >> :
             ks \in { x \in MetricKeys \X MetricKeys : x[1] # x[2] },
             ls \in UNION { ItemLists(m) \X [1..(n - m) -> DocItems] : m \in 0..n } }
DocTimestamps ==
    { Day1, JUint(SecsPerDay + 5), JUint((MaxDate + 1) * SecsPerDay),
      JUint(U64Max), JNull }
DocWires(n) ==
    { JObj([timestamp |-> t, mapping |-> JEntries(m)]) :
          t \in DocTimestamps, m \in DocMappings(n) }
    \cup { JObj([mapping |-> JEntries(<< >>)]), JObj([timestamp |-> Day1]),
           JObj([timestamp |-> Day1, mapping |-> JNull]), JNull }

\* ----------------------------------------------------------------- state
VARIABLES
    t1, t2,      \* SpecTime: two UnixTimestamp inputs
    d1, d2,      \* StartOfDayUnixTimestamp::new(t1), new(t2)
    d3,          \* new(d1.as_timestamp())
    des,         \* StartOfDayUnixTimestamp deserialized from the integer t1
    envT,        \* MetricMeta deserialized from a document with timestamp t1
    done,        \* the calls made so far
    wire,        \* SpecItem: the JSON item
    item,        \* Item deserialized from wire
    env,         \* MetricMeta deserialized from a document holding wire
    enc,         \* item serialized
    item2,       \* Item deserialized from enc
    ipc,
    doc,         \* SpecDoc: the JSON document
    meta,        \* MetricMeta deserialized from doc
    out,         \* meta serialized
    dpc

vars == << t1, t2, d1, d2, d3, des, envT, done,
           wire, item, env, enc, item2, ipc, doc, meta, out, dpc >>
timeVars == << t1, t2, d1, d2, d3, des, envT, done >>
itemVars == << wire, item, env, enc, item2, ipc >>
docVars == << doc, meta, out, dpc >>

TimeIdle ==
    /\ t1 = 0 /\ t2 = 0 /\ d1 = None /\ d2 = None /\ d3 = None
    /\ des = Err("pending") /\ envT = Err("pending") /\ done = {}
ItemIdle ==
    /\ wire = JNull /\ item = Err("pending") /\ env = Err("pending")
    /\ enc = JNull /\ item2 = Err("pending") /\ ipc = "idle"
DocIdle ==
    /\ doc = JNull /\ meta = Err("pending") /\ out = JNull /\ dpc = "idle"

\* ------------------------------------------------------------- SpecTime
InitTime ==
    /\ t1 \in Timestamps /\ t2 \in Timestamps
    /\ d1 = None /\ d2 = None /\ d3 = None
    /\ des = Err("pending") /\ envT = Err("pending") /\ done = {}
    /\ ItemIdle /\ DocIdle

NewT1 ==
    /\ "new1" \notin done
    /\ d1' = StartOfDay_new(t1)
    /\ done' = done \cup { "new1" }
    /\ UNCHANGED << t1, t2, d2, d3, des, envT, itemVars, docVars >>

NewT2 ==
    /\ "new2" \notin done
    /\ d2' = StartOfDay_new(t2)
    /\ done' = done \cup { "new2" }
    /\ UNCHANGED << t1, t2, d1, d3, des, envT, itemVars, docVars >>

\* new applied to the timestamp of a value new returned
Renew ==
    /\ "new1" \in done /\ IsSome(d1) /\ "renew" \notin done
    /\ d3' = StartOfDay_new(as_timestamp(Unwrap(d1)))
    /\ done' = done \cup { "renew" }
    /\ UNCHANGED << t1, t2, d1, d2, des, envT, itemVars, docVars >>

DeserializeTimestamp ==
    /\ "deser" \notin done
    /\ des' = StartOfDay_deserialize(JUint(t1))
    /\ envT' = MetricMeta_deserialize(Envelope(JUint(t1), << LocMin >>))
    /\ done' = done \cup { "deser" }
    /\ UNCHANGED << t1, t2, d1, d2, d3, itemVars, docVars >>

NextTime == NewT1 \/ NewT2 \/ Renew \/ DeserializeTimestamp
SpecTime == InitTime /\ [][NextTime]_vars

\* ------------------------------------------------------------- SpecItem
InitItem ==
    /\ \/ \E D \in ItemDomains(MaxFields) : \E f \in ObjectsOver(D) : wire = JObj(f)
       \/ wire = JUint(5)
    /\ item = Err("pending") /\ env = Err("pending")
    /\ enc = JNull /\ item2 = Err("pending") /\ ipc = "start"
    /\ TimeIdle /\ DocIdle

\* serde_json::from_value::<Item>(wire), and the same item inside a
\* document, between two location items' positions.
DeserializeItem ==
    /\ ipc = "start"
    /\ item' = Item_deserialize(wire)
    /\ env' = MetricMeta_deserialize(Envelope(Day1, << wire, LocRich, wire >>))
    /\ ipc' = "decoded"
    /\ UNCHANGED << wire, enc, item2, timeVars, docVars >>

SerializeItem ==
    /\ ipc = "decoded" /\ IsOk(item)
    /\ enc' = Item_serialize(Value(item))
    /\ ipc' = "encoded"
    /\ UNCHANGED << wire, item, env, item2, timeVars, docVars >>

RedeserializeItem ==
    /\ ipc = "encoded"
    /\ item2' = Item_deserialize(enc)
    /\ ipc' = "redecoded"
    /\ UNCHANGED << wire, item, env, enc, timeVars, docVars >>

NextItem == DeserializeItem \/ SerializeItem \/ RedeserializeItem
SpecItem == InitItem /\ [][NextItem]_vars

\* -------------------------------------------------------------- SpecDoc
InitDoc ==
    /\ doc \in DocWires(MaxItems)
    /\ meta = Err("pending") /\ out = JNull /\ dpc = "start"
    /\ TimeIdle /\ ItemIdle

DeserializeMeta ==
    /\ dpc = "start"
    /\ meta' = MetricMeta_deserialize(doc)
    /\ dpc' = "decoded"
    /\ UNCHANGED << doc, out, timeVars, itemVars >>

SerializeMeta ==
    /\ dpc = "decoded" /\ IsOk(meta)
    /\ out' = MetricMeta_serialize(Value(meta))
    /\ dpc' = "encoded"
    /\ UNCHANGED << doc, meta, timeVars, itemVars >>

NextDoc == DeserializeMeta \/ SerializeMeta
SpecDoc == InitDoc /\ [][NextDoc]_vars

\* ================================================================ claims

\* The UTC calendar day of a timestamp, and whether the calendar has it.
DayOf(t) == t \div SecsPerDay
Representable(t) == t <= I64Max /\ DayOf(t) <= MaxDate
StartOfDayOf(v, t) == v % SecsPerDay = 0 /\ v <= t /\ t - v < SecsPerDay

\* C1: a StartOfDayUnixTimestamp made by new(ts) or by deserializing the
\* integer ts wraps the start of ts's own UTC day: a multiple of 86400 that
\* is not greater than ts and less than 86400 below it, which as_timestamp
\* returns; deserializing a representable timestamp succeeds, also when it
\* is not midnight.
C1_WrapsStartOfOwnDay ==
    /\ ("new1" \in done /\ IsSome(d1))
          => StartOfDayOf(as_timestamp(Unwrap(d1)), t1)
    /\ ("deser" \in done /\ IsOk(des))
          => StartOfDayOf(as_timestamp(Value(des)), t1)
    /\ ("deser" \in done /\ Representable(t1)) => IsOk(des)

C1_Witness ==
    /\ { "new1", "deser" } \subseteq done
    /\ t1 % SecsPerDay # 0
    /\ IsSome(d1) /\ IsOk(des) /\ Value(des) # t1

\* C4: new returns a value or None for every u64 input, None exactly when
\* the seconds do not fit an i64 or lie outside the calendar; deserializing
\* such a timestamp, alone or in a MetricMeta document that is otherwise
\* well-formed, fails with "invalid timestamp".
C4_FailsExactlyWhenUnrepresentable ==
    /\ "new1" \in done
          => /\ d1 = None \/ IsSome(d1)
             /\ d1 = None <=> ~Representable(t1)
    /\ ("deser" \in done /\ ~Representable(t1))
          => /\ des = Err("invalid timestamp")
             /\ envT = Err("invalid timestamp")

C4_Witness ==
    /\ { "new1", "deser" } \subseteq done
    /\ t1 <= I64Max /\ DayOf(t1) > MaxDate
    /\ d1 = None /\ IsErr(envT)

\* C6: two timestamps of the same UTC day give equal values, a timestamp of
\* an earlier day gives the smaller value, and equality and order of the
\* values are those of the wrapped seconds.
C6_DayGroupingAndOrdering ==
    ({ "new1", "new2" } \subseteq done /\ IsSome(d1) /\ IsSome(d2)) =>
        LET a == Unwrap(d1)
            b == Unwrap(d2)
        IN  /\ DayOf(t1) = DayOf(t2) => StartOfDay_eq(a, b)
            /\ DayOf(t1) < DayOf(t2) => StartOfDay_lt(a, b)
            /\ StartOfDay_eq(a, b) <=> as_timestamp(a) = as_timestamp(b)
            /\ StartOfDay_lt(a, b) <=> as_timestamp(a) < as_timestamp(b)

C6_Witness ==
    /\ { "new1", "new2" } \subseteq done /\ IsSome(d1) /\ IsSome(d2)
    /\ DayOf(t1) = DayOf(t2) /\ t1 # t2

\* C7: truncation is idempotent: new applied to the timestamp of a value
\* that new returned succeeds and returns that value.
C7_Idempotent ==
    "renew" \in done => /\ IsSome(d3)
                        /\ StartOfDay_eq(Unwrap(d3), Unwrap(d1))

C7_Witness ==
    /\ "renew" \in done /\ IsSome(d3)
    /\ t1 % SecsPerDay # 0 /\ DayOf(t1) > 0

\* ------------------------------------------------------------ item claims
Decoded == ipc \in { "decoded", "encoded", "redecoded" }
Encoded == ipc \in { "encoded", "redecoded" }
IsObject(j) == Kind(j) = "obj"
Tagless(j) == IsObject(j) /\ "type" \notin DOMAIN Payload(j)
TagIs(j, t) ==
    IsObject(j) /\ "type" \in DOMAIN Payload(j) /\ Payload(j)["type"] = JStr(t)
Recognized(j) == TagIs(j, "location")
Unrecognized(j) ==
    /\ IsObject(j) /\ "type" \in DOMAIN Payload(j)
    /\ Kind(Payload(j)["type"]) = "str" /\ ~TagIs(j, "location")
IsLocation(r) == IsOk(r) /\ Value(r).variant = "Location"
IsUnknown(r) == IsOk(r) /\ Value(r).variant = "Unknown"
\* The items decoded from the document around wire.
EnvItems == Value(env).mapping["d:custom/a@u"]

\* C2 as stated: an item object without `type` decodes to Item::Unknown and
\* does not fail the enclosing document.
C2_TaglessIsUnknown ==
    (Decoded /\ Tagless(wire)) => IsUnknown(item) /\ IsOk(env)

\* C2, amended: an item object without `type` fails to decode, whatever its
\* other fields, and fails the enclosing document.
C2_TaglessIsError ==
    (Decoded /\ Tagless(wire)) => IsErr(item) /\ IsErr(env)

C2_Witness ==
    /\ Decoded /\ Tagless(wire) /\ DOMAIN Payload(wire) # {}
    /\ IsErr(item) /\ IsErr(env)

\* C3: an item whose `type` is a string other than "location" decodes to
\* Item::Unknown whatever its other fields hold; a document's list mixing
\* such items with location items decodes, without failing, to as many
\* items in the same order, Unknown exactly at the unrecognized positions.
C3_UnrecognizedTagIsUnknown ==
    /\ (Decoded /\ Unrecognized(wire)) => IsUnknown(item) /\ IsOk(env)
    /\ (Decoded /\ IsOk(env)) =>
          /\ Len(EnvItems) = 3
          /\ EnvItems[1] = Value(item) /\ EnvItems[3] = Value(item)
          /\ EnvItems[2] = Value(Item_deserialize(LocRich))
          /\ EnvItems[2].variant = "Location"
          /\ \A i \in { 1, 3 } :
                EnvItems[i].variant = "Unknown" <=> Unrecognized(wire)

C3_Witness ==
    /\ Decoded /\ TagIs(wire, "unknown_future_kind")
    /\ "lineno" \in DOMAIN Payload(wire) /\ Payload(wire)["lineno"] = JStr("a")
    /\ IsOk(env) /\ EnvItems[1].variant = "Unknown"

\* A value that is not of the field's type: Option<String> takes a string
\* or null, Option<u64> an unsigned integer or null, Vec<Option<String>>
\* an array of strings and nulls.
WrongType(k, v) ==
    CASE k \in OptStringFields -> Kind(v) \notin { "str", "null" }
      [] k \in OptU64Fields    -> Kind(v) \notin { "uint", "null" }
      [] OTHER ->
            \/ Kind(v) # "arr"
            \/ \E i \in 1..Len(Payload(v)) :
                  Kind(Payload(v)[i]) \notin { "str", "null" }
Malformed(j) ==
    \E k \in DOMAIN Payload(j) \cap LocationFields : WrongType(k, Payload(j)[k])

SameContext(seq, arr) ==
    /\ Kind(arr) = "arr" /\ Len(Payload(arr)) = Len(seq)
    /\ \A i \in 1..Len(seq) :
          IF seq[i] = None THEN Payload(arr)[i] = JNull
          ELSE Payload(arr)[i] = JStr(Unwrap(seq[i]))

\* C8: pre_context and post_context: the key is written iff the sequence
\* is not empty, as an array of the same length and order with null at the
\* position of every absent element; decoding what was written restores
\* the sequence; decoding a document gives the empty sequence for a
\* missing key and nulls at the document's positions otherwise.
C8_ContextArrays ==
    /\ (Encoded /\ IsLocation(item)) =>
          \A k \in ContextFields :
             /\ k \in DOMAIN Payload(enc) <=> Value(item).loc[k] # << >>
             /\ k \in DOMAIN Payload(enc)
                   => SameContext(Value(item).loc[k], Payload(enc)[k])
    /\ (ipc = "redecoded" /\ IsLocation(item)) =>
          /\ IsLocation(item2)
          /\ \A k \in ContextFields : Value(item2).loc[k] = Value(item).loc[k]
    /\ (Decoded /\ IsLocation(item)) =>
          \A k \in ContextFields :
             IF k \in DOMAIN Payload(wire)
             THEN SameContext(Value(item).loc[k], Payload(wire)[k])
             ELSE Value(item).loc[k] = << >>

C8_Witness ==
    /\ ipc = "redecoded" /\ IsLocation(item) /\ IsLocation(item2)
    /\ Value(item).loc["pre_context"] = << None, Some("x") >>
    /\ Payload(enc)["pre_context"] = JArr(<< JNull, JStr("x") >>)
    /\ "post_context" \notin DOMAIN Payload(enc)

\* C9: a written Location item carries "type":"location" and each of
\* filename, abs_path, module, function, lineno, context_line iff that
\* field is present; with nothing present and both contexts empty it is
\* exactly {"type":"location"}, which decodes to that Location.
C9_OptionalFieldOmission ==
    /\ (Encoded /\ IsLocation(item)) =>
          /\ "type" \in DOMAIN Payload(enc)
          /\ Payload(enc)["type"] = JStr("location")
          /\ \A k \in OptStringFields \cup OptU64Fields :
                /\ k \in DOMAIN Payload(enc) <=> IsSome(Value(item).loc[k])
                /\ k \in DOMAIN Payload(enc) =>
                      Payload(Payload(enc)[k]) = Unwrap(Value(item).loc[k])
          /\ (\A k \in LocationFields : Value(item).loc[k] = << >>)
                => enc = LocMin
    /\ (Decoded /\ wire = LocMin) =>
          /\ IsLocation(item)
          /\ \A k \in LocationFields : Value(item).loc[k] = << >>

C9_Witness ==
    /\ ipc = "redecoded" /\ wire = LocMin /\ enc = LocMin
    /\ IsLocation(item2)

\* -------------------------------------------------------- document claim
RightType(k, v) ==
    CASE k \in OptStringFields -> Kind(v) = "str"
      [] k \in OptU64Fields    -> Kind(v) = "uint"
      [] k \in ContextFields   ->
            /\ Kind(v) = "arr" /\ Payload(v) # << >>
            /\ \A i \in 1..Len(Payload(v)) :
                  Kind(Payload(v)[i]) \in { "str", "null" }
      [] OTHER -> FALSE

\* A location item in the wire format: absent fields and empty context
\* arrays omitted.
WellFormedItem(j) ==
    /\ Recognized(j)
    /\ \A k \in DOMAIN Payload(j) \ { "type" } : RightType(k, Payload(j)[k])

WellFormedDoc(j) ==
    /\ IsObject(j) /\ DOMAIN Payload(j) = { "timestamp", "mapping" }
    /\ Kind(Payload(j)["timestamp"]) = "uint"
    /\ Representable(Payload(Payload(j)["timestamp"]))
    /\ Payload(Payload(j)["timestamp"]) % SecsPerDay = 0
    /\ Kind(Payload(j)["mapping"]) = "entries"
    /\ \A i \in 1..Len(Payload(Payload(j)["mapping"])) :
          LET e == Payload(Payload(j)["mapping"])[i]
          IN  /\ IsOk(Mri_parse(e[1]))
              /\ Kind(e[2]) = "arr"
              /\ \A n \in 1..Len(Payload(e[2])) : WellFormedItem(Payload(e[2])[n])

Entries(j) == Payload(Payload(j)["mapping"])

\* No two keys of the document name the same metric.
DistinctMetrics(j) ==
    \A a, b \in 1..Len(Entries(j)) :
        a # b => Mri_canonical(Entries(j)[a][1]) # Mri_canonical(Entries(j)[b][1])

\* Decoding succeeds, and what is written back has the document's
\* timestamp, its keys in canonical form, and under each key the
\* document's items: as many, in the same order, each with the same
\* fields and values.
RoundTrips ==
    /\ IsOk(meta)
    /\ dpc = "encoded" =>
          /\ Payload(out)["timestamp"] = Payload(doc)["timestamp"]
          /\ DOMAIN Payload(Payload(out)["mapping"])
                = { Mri_canonical(Entries(doc)[i][1]) : i \in 1..Len(Entries(doc)) }
          /\ \A i \in 1..Len(Entries(doc)) :
                Payload(Payload(out)["mapping"])[Mri_canonical(Entries(doc)[i][1])]
                    = Entries(doc)[i][2]

\* C10 as stated: every well-formed document round-trips.
C10_RoundTrip ==
    (dpc # "start" /\ WellFormedDoc(doc)) => RoundTrips

\* C10, amended: every well-formed document no two of whose keys share a
\* canonical form round-trips.
C10_RoundTripDistinctMetrics ==
    (dpc # "start" /\ WellFormedDoc(doc) /\ DistinctMetrics(doc)) => RoundTrips

C10_Witness ==
    /\ dpc = "encoded" /\ WellFormedDoc(doc) /\ DistinctMetrics(doc)
    /\ Len(Entries(doc)) = 2
    /\ Entries(doc)[1][1] = "d:a@u"
    /\ Entries(doc)[1][2] = JArr(<< LocRich >>)
    /\ "d:custom/a@u" \in DOMAIN Payload(Payload(out)["mapping"])

====
